---- MODULE Spec2Model ----
(***************************************************************************)
(* The trip-progress engine of ferrostar: NavigationController, its        *)
(* Mutex<TripState>, and the two public methods advance_to_next_step and   *)
(* update_user_location, called by several concurrent callers.             *)
(*                                                                         *)
(* Coordinates are integers on a small grid and every route is a           *)
(* staircase of axis-aligned segments, so the nearest point of a polyline  *)
(* is computed exactly.  A UserLocation keeps its coordinates and its      *)
(* horizontal accuracy; course and timestamp play no part in the           *)
(* controller and are left out.                                            *)
(***************************************************************************)
EXTENDS Integers, Sequences, FiniteSets, TLC

\* ------------------------------------------------------------------ bounds
\* The longest route has MaxSteps steps.
MaxSteps == 3
\* The length of the geometry of one step, in grid units.
StepLen == 2
\* The number of concurrent callers sharing the controller.
NumCallers == 2
\* The number of calls of the public methods in one behaviour.
MaxCalls == 3
\* The largest horizontal accuracy of a location fix.
MaxAccuracy == 1
\* The distance threshold of the distance-based strategy.
Threshold == 1

VARIABLES
    state,      \* the TripState inside the Mutex
    holder,     \* the caller holding the Mutex guard, or NoCaller
    poisoned,   \* the Mutex's poison flag
    config,     \* NavigationControllerConfig, immutable
    input,      \* the arguments NavigationController::new was given
    pc,         \* each caller's position in its call
    call,       \* each caller's current call: the method and its argument
    local,      \* each caller's locals while it holds the guard
    log         \* the calls that returned, in the order of their return

vars == <<state, holder, poisoned, config, input, pc, call, local, log>>

Callers == 1..NumCallers
NoCaller == 0

\* ------------------------------------------------------------ data model
Min(a, b) == IF a < b THEN a ELSE b
Max(a, b) == IF a < b THEN b ELSE a
Abs(a) == IF a < 0 THEN -a ELSE a
Clamp(v, lo, hi) == Max(lo, Min(v, hi))

\* GeographicCoordinates {lng, lat}
GeographicCoordinates(lng, lat) == [lng |-> lng, lat |-> lat]

\* geo::Coord {x, y}
Coord(x, y) == [x |-> x, y |-> y]

\* impl From<Coord> for GeographicCoordinates
CoordToGeographic(value) == [lng |-> value.x, lat |-> value.y]

\* impl From<GeographicCoordinates> for Coord
GeographicToCoord(value) == [x |-> value.lng, y |-> value.lat]

\* UserLocation {coordinates, horizontal_accuracy}
UserLocation(coordinates, accuracy) == [coordinates |-> coordinates, horizontal_accuracy |-> accuracy]

\* The k-th corner of the staircase the routes follow: (0,0), (L,0), (L,L), (2L,L), ...
Corner(k) == GeographicCoordinates(((k + 1) \div 2) * StepLen, (k \div 2) * StepLen)

\* The i-th RouteStep (1-based) travels from Corner(i-1) to Corner(i).
StepOf(i) == [geometry |-> <<Corner(i - 1), Corner(i)>>, distance |-> 10 * i, instruction |-> i]

\* The Route of n steps.
RouteOf(n) == [geometry |-> [k \in 1..(n + 1) |-> Corner(k - 1)], distance |-> n * StepLen, waypoints |-> <<Corner(0), Corner(n)>>, steps |-> [i \in 1..n |-> StepOf(i)]]

Routes == {RouteOf(n) : n \in 0..MaxSteps}

\* The point beside the first step, one unit before its end and one unit
\* off the route.
Beside == GeographicCoordinates(StepLen - 1, 1)

\* The location fixes a caller may report: the start of the route, the end of
\* the first step, the end of the longest route, and the point beside the
\* first step measured exactly or with the largest accuracy radius.
Locations == {UserLocation(c, 0) : c \in {Corner(0), Corner(1), Corner(MaxSteps), Beside}} \cup {UserLocation(Beside, MaxAccuracy)}

\* The locations a controller is constructed with.
InitialLocations == {UserLocation(Corner(0), 0), UserLocation(Beside, MaxAccuracy)}

\* StepAdvanceMode: manual only, or the distance to the end of the step
\* with the threshold optionally widened by the fix's accuracy.
Manual == [mode |-> "Manual"]
DistanceToEndOfStep(distance, widen) == [mode |-> "DistanceToEndOfStep", distance |-> distance, widen |-> widen]
StepAdvanceModes == {Manual} \cup {DistanceToEndOfStep(Threshold, w) : w \in BOOLEAN}
Configs == {[step_advance |-> m] : m \in StepAdvanceModes}

\* get_linestring with longitude and latitude exchanged.
get_linestring_swapped(step) == [k \in 1..Len(step.geometry) |-> Coord(step.geometry[k].lat, step.geometry[k].lng)]

\* impl RouteStep { fn get_linestring }
get_linestring(step) == [k \in 1..Len(step.geometry) |-> Coord(step.geometry[k].lng, step.geometry[k].lat)]

\* ----------------------------------------------------- geometry snapping
\* The length of an axis-aligned segment.
Dist(a, b) == Abs(a.x - b.x) + Abs(a.y - b.y)

\* The nearest point of the axis-aligned segment a-b to p.
NearestOnSegment(p, a, b) == Coord(Clamp(p.x, Min(a.x, b.x), Max(a.x, b.x)), Clamp(p.y, Min(a.y, b.y), Max(a.y, b.y)))

\* The squared distance of p to the segment a-b.
SegmentDistance2(p, a, b) == LET q == NearestOnSegment(p, a, b) IN (p.x - q.x) * (p.x - q.x) + (p.y - q.y) * (p.y - q.y)

\* The first segment of the polyline nearest to p (ties go to the first one).
NearestSegment(p, line) == CHOOSE i \in 1..(Len(line) - 1) : \A j \in 1..(Len(line) - 1) : LET di == SegmentDistance2(p, line[i], line[i + 1]) dj == SegmentDistance2(p, line[j], line[j + 1]) IN di <= dj /\ (j < i => dj > di)

\* The nearest point of the polyline to p; p itself when the polyline is empty.
NearestOnLine(p, line) == IF Len(line) = 0 THEN p ELSE IF Len(line) = 1 THEN line[1] ELSE LET i == NearestSegment(p, line) IN NearestOnSegment(p, line[i], line[i + 1])

\* utils::snap_user_location_to_line: the coordinates move to the nearest
\* point of the polyline, every other field is copied.
snap_user_location_to_line(location, line) == [location EXCEPT !.coordinates = CoordToGeographic(NearestOnLine(GeographicToCoord(location.coordinates), line))]

\* ------------------------------------------------------ step-advance policy
\* The length of the polyline from its k-th point to its end.
RECURSIVE LengthFrom(_, _)
LengthFrom(line, k) == IF k >= Len(line) THEN 0 ELSE Dist(line[k], line[k + 1]) + LengthFrom(line, k + 1)

\* The distance along the polyline from the snapped position of p to its end.
RemainingDistance(p, line) == IF Len(line) <= 1 THEN 0 ELSE LET i == NearestSegment(p, line) IN Dist(NearestOnSegment(p, line[i], line[i + 1]), line[i + 1]) + LengthFrom(line, i + 1)

\* Option<T>
None == [kind |-> "None"]
Some(v) == [kind |-> "Some", value |-> v]

\* remaining_steps.get(i), 0-based as in the source
Get(steps, i) == IF i + 1 <= Len(steps) THEN Some(steps[i + 1]) ELSE None

\* utils::should_advance_to_next_step
should_advance_to_next_step(current_step_linestring, next_route_step, user_location, step_advance_mode) == IF step_advance_mode.mode = "Manual" THEN FALSE ELSE IF Len(current_step_linestring) = 0 THEN FALSE ELSE RemainingDistance(GeographicToCoord(user_location.coordinates), current_step_linestring) < step_advance_mode.distance + (IF step_advance_mode.widen THEN user_location.horizontal_accuracy ELSE 0)

\* ------------------------------------------------ step advancement mechanics
\* StepAdvanceStatus
Advanced(step, linestring) == [kind |-> "Advanced", step |-> step, linestring |-> linestring]
EndOfRoute == [kind |-> "EndOfRoute"]

\* utils::advance_step: the first item is the current step, the second the next
advance_step(remaining_steps) == IF Len(remaining_steps) > 1 THEN Advanced(remaining_steps[2], get_linestring(remaining_steps[2])) ELSE EndOfRoute

\* ------------------------------------------------------------- trip state
\* TripState::Complete
Complete == [kind |-> "Complete"]

\* TripState::Navigating {..}
Navigating(last_user_location, snapped_user_location, route, route_linestring, remaining_waypoints, remaining_steps, current_step_linestring) == [kind |-> "Navigating", last_user_location |-> last_user_location, snapped_user_location |-> snapped_user_location, route |-> route, route_linestring |-> route_linestring, remaining_waypoints |-> remaining_waypoints, remaining_steps |-> remaining_steps, current_step_linestring |-> current_step_linestring]

\* NavigationStateUpdate::Arrived
Arrived == [kind |-> "Arrived"]

\* NavigationStateUpdate::Navigating {..}
NavigatingUpdate(snapped_user_location, remaining_waypoints, current_step, current_step_remaining_distance) == [kind |-> "Navigating", snapped_user_location |-> snapped_user_location, remaining_waypoints |-> remaining_waypoints, current_step |-> current_step, current_step_remaining_distance |-> current_step_remaining_distance]

\* NavigationController::new, the polyline of the whole route
route_linestring_of(route) == [k \in 1..Len(route.geometry) |-> Coord(route.geometry[k].lng, route.geometry[k].lat)]

\* New without the early return on a route with no steps.
New_no_bail(last_user_location, route) ==
    LET route_linestring == route_linestring_of(route)
    IN  Navigating(last_user_location,
                   snap_user_location_to_line(last_user_location, route_linestring),
                   route, route_linestring, route.waypoints, route.steps,
                   IF Len(route.steps) = 0 THEN <<>> ELSE get_linestring(route.steps[1]))

\* NavigationController::new, the TripState the controller starts in
New(last_user_location, route) ==
    LET remaining_waypoints == route.waypoints
        remaining_steps == route.steps
        route_linestring == route_linestring_of(route)
    IN  IF Len(remaining_steps) = 0
        THEN Complete
        ELSE Navigating(last_user_location,
                        snap_user_location_to_line(last_user_location, route_linestring),
                        route, route_linestring, remaining_waypoints, remaining_steps,
                        get_linestring(remaining_steps[1]))

\* ------------------------------------------------ the arms of the handlers
\* remove_head taking the last step, as pop() would, instead of the first.
remove_head_pops(st) == [st EXCEPT !.remaining_steps = SubSeq(@, 1, Len(@) - 1)]

\* remove_head with the removal forgotten.
remove_head_kept(st) == st

\* A panic of the caller holding the guard, in place of the TripState it
\* would have written.
Panicked == [kind |-> "Panicked"]

\* remaining_steps.remove(0): Vec::remove panics on an empty vector
remove_head(st) == IF Len(st.remaining_steps) = 0 THEN Panicked ELSE [st EXCEPT !.remaining_steps = Tail(@)]

\* store_linestring with the assignment forgotten: the cache keeps the
\* polyline of the step just left.
store_linestring_stale(st, linestring) == st

\* *current_step_linestring = linestring
store_linestring(st, linestring) == [st EXCEPT !.current_step_linestring = linestring]

\* end_of_route removing the last step as the Advanced arm does, instead of
\* completing the trip.
end_of_route_removes(st) == remove_head(st)

\* end_of_route with the transition to Complete forgotten.
end_of_route_stays(st) == st

\* StepAdvanceStatus::EndOfRoute => *guard = TripState::Complete
end_of_route(st) == Complete

\* advance_update consuming the first of the remaining waypoints.
advance_update_consumes_waypoint(snapped_user_location, remaining_waypoints, step) == NavigatingUpdate(snapped_user_location, Tail(remaining_waypoints), step, step.distance)

\* advance_update with the placeholder distance of update_user_location.
advance_update_placeholder(snapped_user_location, remaining_waypoints, step) == NavigatingUpdate(snapped_user_location, remaining_waypoints, step, 0)

\* advance_to_next_step, the update of the Advanced arm: the new head step
\* with its full distance
advance_update(snapped_user_location, remaining_waypoints, step) == NavigatingUpdate(snapped_user_location, remaining_waypoints, step, step.distance)

\* update_user_location: snapped_user_location = snap_user_location_to_line(location, route_linestring)
resnap(st, location) == snap_user_location_to_line(location, st.route_linestring)

\* policy_fires with a default strategy in place of the configured one.
policy_fires_default(st, location, cfg) == should_advance_to_next_step(st.current_step_linestring, Get(st.remaining_steps, 1), location, DistanceToEndOfStep(Threshold, FALSE))

\* update_user_location: the call of should_advance_to_next_step, on the cached
\* polyline, the step after the head, the location just reported and the
\* configured strategy
policy_fires(st, location, cfg) == should_advance_to_next_step(st.current_step_linestring, Get(st.remaining_steps, 1), location, cfg.step_advance)

\* advanced_current_step reading remaining_steps.get(1) again after the
\* removal: one step too far.
advanced_current_step_skips(st, update) == IF Len(st.remaining_steps) > 1 THEN st.remaining_steps[2] ELSE update.step

\* update_user_location, Some(step.clone()) of the Advanced arm
advanced_current_step(st, update) == update.step

\* update_user_location, the update it ends with: the remaining distance is
\* a placeholder zero
location_update(snapped_user_location, remaining_waypoints, step) == NavigatingUpdate(snapped_user_location, remaining_waypoints, step, 0)

\* ------------------------------------------- the methods, run on their own
\* advance_to_next_step run from lock() to its return on the TripState st:
\* the TripState it leaves and the update it returns.
advance_to_next_step(st) ==
    IF st.kind = "Navigating"
    THEN LET update == advance_step(st.remaining_steps)
         IN  IF update.kind = "Advanced"
             THEN [post |-> store_linestring(remove_head(st), update.linestring),
                   ret |-> advance_update(st.snapped_user_location, st.remaining_waypoints, update.step)]
             ELSE [post |-> end_of_route(st), ret |-> Arrived]
    ELSE [post |-> st, ret |-> Arrived]

\* update_user_location(location) run from lock() to its return on the
\* TripState st.
update_user_location(st, location, cfg) ==
    IF st.kind = "Navigating"
    THEN IF Len(st.remaining_steps) = 0
         THEN [post |-> st, ret |-> Arrived]
         ELSE LET snapped_user_location == resnap(st, location)
                  update == advance_step(st.remaining_steps)
              IN  IF policy_fires(st, location, cfg)
                  THEN IF update.kind = "Advanced"
                       THEN LET removed == remove_head(st)
                            IN  [post |-> store_linestring(removed, update.linestring),
                                 ret |-> location_update(snapped_user_location, st.remaining_waypoints, advanced_current_step(removed, update))]
                       ELSE [post |-> end_of_route(st), ret |-> Arrived]
                  ELSE [post |-> st, ret |-> location_update(snapped_user_location, st.remaining_waypoints, st.remaining_steps[1])]
    ELSE [post |-> st, ret |-> Arrived]

\* --------------------------------------------------------------- callers
\* The locals of a call in progress: the TripState the guard was acquired on,
\* the decision of the policy, the StepAdvanceStatus, the local copy of
\* snapped_user_location, and the NavigationStateUpdate once computed with
\* the arm that computed it.
NoLocals == [pre |-> None, policy |-> None, update |-> None, snapped_user_location |-> None, ret |-> None, arm |-> "none"]

\* The calls begun so far.
Started == Len(log) + Cardinality({c \in Callers : pc[c] # "idle"})

Init ==
    /\ \E location \in InitialLocations, route \in Routes :
        /\ input = [last_user_location |-> location, route |-> route]
        /\ state = New(location, route)
    /\ config \in Configs
    /\ holder = NoCaller
    /\ poisoned = FALSE
    /\ pc = [c \in Callers |-> "idle"]
    /\ call = [c \in Callers |-> None]
    /\ local = [c \in Callers |-> NoLocals]
    /\ log = <<>>

\* A caller calls advance_to_next_step().
CallAdvance(c) ==
    /\ pc[c] = "idle"
    /\ Started < MaxCalls
    /\ pc' = [pc EXCEPT ![c] = "lock"]
    /\ call' = [call EXCEPT ![c] = [method |-> "advance_to_next_step", location |-> None]]
    /\ UNCHANGED <<state, holder, poisoned, config, input, local, log>>

\* A caller calls update_user_location(location).
CallUpdate(c) ==
    /\ pc[c] = "idle"
    /\ Started < MaxCalls
    /\ \E location \in Locations :
        call' = [call EXCEPT ![c] = [method |-> "update_user_location", location |-> location]]
    /\ pc' = [pc EXCEPT ![c] = "lock"]
    /\ UNCHANGED <<state, holder, poisoned, config, input, local, log>>

\* Lock without mutual exclusion: the guard is handed out while another
\* caller holds it.
Lock_no_exclusion(c) ==
    /\ pc[c] = "lock"
    /\ ~poisoned
    /\ holder' = c
    /\ pc' = [pc EXCEPT ![c] = "guard"]
    /\ local' = [local EXCEPT ![c] = [NoLocals EXCEPT !.pre = state]]
    /\ UNCHANGED <<state, poisoned, config, input, call, log>>

\* self.state.lock() returns Ok(guard): the Mutex is free and not poisoned.
Lock(c) ==
    /\ pc[c] = "lock"
    /\ holder = NoCaller
    /\ ~poisoned
    /\ holder' = c
    /\ pc' = [pc EXCEPT ![c] = "guard"]
    /\ local' = [local EXCEPT ![c] = [NoLocals EXCEPT !.pre = state]]
    /\ UNCHANGED <<state, poisoned, config, input, call, log>>

\* A panic under the guard: unwinding drops the guard and poisons the Mutex.
Unwind(c) ==
    /\ poisoned' = TRUE
    /\ holder' = NoCaller
    /\ pc' = [pc EXCEPT ![c] = "panicked"]
    /\ UNCHANGED <<state, local>>

\* The caller writes `next` to the TripState and goes on at `to` with the
\* locals `locals`, unless computing `next` panicked.
Write(c, next, locals, to) ==
    IF next.kind = "Panicked"
    THEN Unwind(c)
    ELSE /\ state' = next
         /\ local' = [local EXCEPT ![c] = locals]
         /\ pc' = [pc EXCEPT ![c] = to]
         /\ UNCHANGED <<holder, poisoned>>

\* advance_to_next_step: match *guard, advance_step, and the arm it selects up
\* to remaining_steps.remove(0).
AdvanceMatch(c) ==
    /\ pc[c] = "guard"
    /\ call[c].method = "advance_to_next_step"
    /\ IF state.kind = "Navigating"
       THEN LET update == advance_step(state.remaining_steps)
            IN  IF update.kind = "Advanced"
                THEN Write(c, remove_head(state), [local[c] EXCEPT !.update = update, !.snapped_user_location = state.snapped_user_location], "apply")
                ELSE Write(c, end_of_route(state), [local[c] EXCEPT !.update = update, !.ret = Arrived, !.arm = "end_of_route"], "return")
       ELSE Write(c, state, [local[c] EXCEPT !.ret = Arrived, !.arm = "complete"], "return")
    /\ UNCHANGED <<config, input, call, log>>

\* advance_to_next_step, the rest of the Advanced arm: the cached polyline is
\* replaced and the update built.
AdvanceApply(c) ==
    /\ pc[c] = "apply"
    /\ call[c].method = "advance_to_next_step"
    /\ state' = store_linestring(state, local[c].update.linestring)
    /\ local' = [local EXCEPT ![c].ret = advance_update(local[c].snapped_user_location, state.remaining_waypoints, local[c].update.step), ![c].arm = "advanced"]
    /\ pc' = [pc EXCEPT ![c] = "return"]
    /\ UNCHANGED <<holder, poisoned, config, input, call, log>>

\* update_user_location: match *guard, the snap, the policy, advance_step and
\* the arm it selects up to remaining_steps.remove(0).  last_user_location and
\* snapped_user_location are bound by value (UserLocation is Copy): the
\* assignments to them change the call's copies, not the TripState.
UpdateMatch(c) ==
    /\ pc[c] = "guard"
    /\ call[c].method = "update_user_location"
    /\ LET location == call[c].location
       IN  IF state.kind = "Navigating"
           THEN IF Len(state.remaining_steps) = 0
                THEN Write(c, state, [local[c] EXCEPT !.ret = Arrived, !.arm = "no_steps"], "return")
                ELSE LET snapped_user_location == resnap(state, location)
                         fires == policy_fires(state, location, config)
                         update == advance_step(state.remaining_steps)
                     IN  IF fires
                         THEN IF update.kind = "Advanced"
                              THEN Write(c, remove_head(state), [local[c] EXCEPT !.policy = Some(fires), !.update = update, !.snapped_user_location = snapped_user_location], "apply")
                              ELSE Write(c, end_of_route(state), [local[c] EXCEPT !.policy = Some(fires), !.update = update, !.snapped_user_location = snapped_user_location, !.ret = Arrived, !.arm = "end_of_route"], "return")
                         ELSE Write(c, state, [local[c] EXCEPT !.policy = Some(fires), !.snapped_user_location = snapped_user_location, !.ret = location_update(snapped_user_location, state.remaining_waypoints, state.remaining_steps[1]), !.arm = "stay"], "return")
           ELSE Write(c, state, [local[c] EXCEPT !.ret = Arrived, !.arm = "complete"], "return")
    /\ UNCHANGED <<config, input, call, log>>

\* UpdateApply looping: the policy is evaluated again on the new head step and
\* a second step removed when it fires and a further step is left.
UpdateApply_again(c) ==
    /\ pc[c] = "apply"
    /\ call[c].method = "update_user_location"
    /\ LET stored == store_linestring(state, local[c].update.linestring)
           again == Len(stored.remaining_steps) > 1 /\ policy_fires(stored, call[c].location, config)
           next == IF again THEN store_linestring(remove_head(stored), get_linestring(stored.remaining_steps[2])) ELSE stored
       IN  /\ state' = next
           /\ local' = [local EXCEPT ![c].ret = location_update(local[c].snapped_user_location, state.remaining_waypoints, next.remaining_steps[1]), ![c].arm = "advanced"]
    /\ pc' = [pc EXCEPT ![c] = "return"]
    /\ UNCHANGED <<holder, poisoned, config, input, call, log>>

\* update_user_location, the rest of the Advanced arm: the cached polyline is
\* replaced and the update built on the new head step.
UpdateApply(c) ==
    /\ pc[c] = "apply"
    /\ call[c].method = "update_user_location"
    /\ state' = store_linestring(state, local[c].update.linestring)
    /\ local' = [local EXCEPT ![c].ret = location_update(local[c].snapped_user_location, state.remaining_waypoints, advanced_current_step(state, local[c].update)), ![c].arm = "advanced"]
    /\ pc' = [pc EXCEPT ![c] = "return"]
    /\ UNCHANGED <<holder, poisoned, config, input, call, log>>

\* Return with the guard leaked instead of dropped.
Return_keeps_guard(c) ==
    /\ pc[c] = "return"
    /\ log' = Append(log, [method |-> call[c].method, location |-> call[c].location, pre |-> local[c].pre, post |-> state, policy |-> local[c].policy, arm |-> local[c].arm, ret |-> local[c].ret])
    /\ pc' = [pc EXCEPT ![c] = "idle"]
    /\ call' = [call EXCEPT ![c] = None]
    /\ local' = [local EXCEPT ![c] = NoLocals]
    /\ UNCHANGED <<state, holder, poisoned, config, input>>

\* The method returns: the guard is dropped and the caller has its update.
Return(c) ==
    /\ pc[c] = "return"
    /\ holder' = NoCaller
    /\ log' = Append(log, [method |-> call[c].method, location |-> call[c].location, pre |-> local[c].pre, post |-> state, policy |-> local[c].policy, arm |-> local[c].arm, ret |-> local[c].ret])
    /\ pc' = [pc EXCEPT ![c] = "idle"]
    /\ call' = [call EXCEPT ![c] = None]
    /\ local' = [local EXCEPT ![c] = NoLocals]
    /\ UNCHANGED <<state, poisoned, config, input>>

Next ==
    \E c \in Callers :
        \/ CallAdvance(c)
        \/ CallUpdate(c)
        \/ Lock(c)
        \/ AdvanceMatch(c)
        \/ AdvanceApply(c)
        \/ UpdateMatch(c)
        \/ UpdateApply(c)
        \/ Return(c)

Spec == Init /\ [][Next]_vars

\* Caller c goes on to the next position of its call: it takes the free Mutex,
\* runs the next part of its method, or returns.  Every such step is a step of
\* Lock(c), AdvanceMatch(c), AdvanceApply(c), UpdateMatch(c), UpdateApply(c) or
\* Return(c), and one of them is enabled exactly when the first conjunct holds.
Running(c) ==
    /\ pc[c] \in {"guard", "apply", "return"} \/ (pc[c] = "lock" /\ holder = NoCaller /\ ~poisoned)
    /\ \E p \in {"guard", "apply", "return", "idle", "panicked"} \ {pc[c]} : pc' = [pc EXCEPT ![c] = p]

\* Fair scheduling: a caller that can go on does so eventually.  Nothing
\* obliges a caller to call.
Fairness == \A c \in Callers : WF_pc(Running(c))

FairSpec == Init /\ [][Next]_vars /\ Fairness

\* ------------------------------------------------------- a poisoned Mutex
\* The holder of the guard terminates abnormally in the body of its method,
\* before or between its writes to the TripState: unwinding drops the guard
\* and poisons the Mutex.
HolderPanics(c) ==
    /\ pc[c] \in {"guard", "apply"}
    /\ holder = c
    /\ Unwind(c)
    /\ UNCHANGED <<config, input, call, log>>

\* LockPoisoned recovering the guard from the error and going on with it.
LockPoisoned_recovers(c) ==
    /\ pc[c] = "lock"
    /\ holder = NoCaller
    /\ poisoned
    /\ holder' = c
    /\ pc' = [pc EXCEPT ![c] = "guard"]
    /\ local' = [local EXCEPT ![c] = [NoLocals EXCEPT !.pre = state]]
    /\ UNCHANGED <<state, poisoned, config, input, call, log>>

\* self.state.lock() returns Err(_): unreachable!() ends the call.
LockPoisoned(c) ==
    /\ pc[c] = "lock"
    /\ holder = NoCaller
    /\ poisoned
    /\ pc' = [pc EXCEPT ![c] = "aborted"]
    /\ UNCHANGED <<state, holder, poisoned, config, input, call, local, log>>

NextFault ==
    \/ Next
    \/ \E c \in Callers : HolderPanics(c)
    \/ \E c \in Callers : LockPoisoned(c)

FaultSpec == Init /\ [][NextFault]_vars

\* ------------------------------------------------------------ properties
AdvanceCalls == {i \in DOMAIN log : log[i].method = "advance_to_next_step"}
UpdateCalls == {i \in DOMAIN log : log[i].method = "update_user_location"}

\* The number of steps of the route the controller was constructed with.
N == Len(input.route.steps)

\* No call has acquired the Mutex yet: the TripState is the constructed one.
Constructed == Len(log) = 0 /\ \A c \in Callers : pc[c] \in {"idle", "lock"}

\* C1: once a call has returned Arrived, the TripState is Complete and every
\* later call, returned or about to return, has Arrived as its result; no
\* call that found the TripState Complete left it otherwise.
C1_AbsorbingArrival ==
    /\ \A i \in DOMAIN log : log[i].ret.kind = "Arrived" =>
        /\ state.kind = "Complete"
        /\ \A j \in DOMAIN log : j > i => log[j].ret.kind = "Arrived"
        /\ \A c \in Callers : pc[c] = "return" => local[c].ret.kind = "Arrived"
    /\ \A i \in DOMAIN log : log[i].pre.kind = "Complete" => log[i].post.kind = "Complete"

\* An Arrived from the end of the route, followed by a call of each method.
C1_Witness ==
    /\ Len(log) = 3
    /\ log[1].arm = "end_of_route"
    /\ {log[2].method, log[3].method} = {"advance_to_next_step", "update_user_location"}
    /\ log[3].ret.kind = "Arrived"

\* C2: when only advance_to_next_step has been called on a route of N >= 1
\* steps, the i-th call for i < N returned Navigating on step i+1 of the route
\* and left the state Navigating, and the N-th returned Arrived and left the
\* state Complete.
C2_AdvanceNTimes ==
    (N >= 1 /\ AdvanceCalls = DOMAIN log) =>
        \A i \in DOMAIN log :
            /\ i < N => /\ log[i].ret.kind = "Navigating"
                        /\ log[i].ret.current_step = input.route.steps[i + 1]
                        /\ log[i].post.kind = "Navigating"
            /\ i = N => /\ log[i].ret.kind = "Arrived"
                        /\ log[i].pre.kind = "Navigating"
                        /\ log[i].post.kind = "Complete"

\* The longest route advanced to its end by exactly N calls.
C2_Witness ==
    /\ N = MaxSteps
    /\ Len(log) = N
    /\ AdvanceCalls = DOMAIN log
    /\ log[N].ret.kind = "Arrived"
    /\ log[N - 1].ret.current_step = input.route.steps[N]

\* C3: a controller constructed on a route of N >= 1 steps is Navigating, with
\* the route's steps in order as the remaining steps, the polyline of the
\* first step cached, and the initial location snapped onto the polyline of
\* the whole route as its snapped location.
C3_Construction ==
    (Constructed /\ N >= 1) =>
        /\ state.kind = "Navigating"
        /\ state.remaining_steps = input.route.steps
        /\ state.remaining_steps[1] = input.route.steps[1]
        /\ Len(state.current_step_linestring) = Len(input.route.steps[1].geometry)
        /\ \A k \in DOMAIN state.current_step_linestring :
            /\ state.current_step_linestring[k].x = input.route.steps[1].geometry[k].lng
            /\ state.current_step_linestring[k].y = input.route.steps[1].geometry[k].lat
        /\ state.last_user_location = input.last_user_location
        /\ state.snapped_user_location = snap_user_location_to_line(input.last_user_location, route_linestring_of(input.route))

\* A controller constructed on the longest route from a location off the
\* route, which the snap moved.
C3_Witness ==
    /\ Constructed
    /\ N = MaxSteps
    /\ state.kind = "Navigating"
    /\ state.snapped_user_location # input.last_user_location
    /\ state.snapped_user_location.coordinates = GeographicCoordinates(StepLen - 1, 0)

\* C4: a controller constructed on a route with no steps is Complete, and
\* every call on it found the state Complete, left it Complete and returned
\* Arrived.
C4_EmptyRoute ==
    N = 0 =>
        /\ state.kind = "Complete"
        /\ \A i \in DOMAIN log :
            /\ log[i].pre.kind = "Complete"
            /\ log[i].post.kind = "Complete"
            /\ log[i].ret.kind = "Arrived"
        /\ \A c \in Callers : pc[c] = "return" => local[c].ret.kind = "Arrived"

\* A route with no steps on which both methods have been called.
C4_Witness ==
    /\ N = 0
    /\ AdvanceCalls # {}
    /\ UpdateCalls # {}
    /\ \A i \in DOMAIN log : log[i].ret.kind = "Arrived"

\* The polyline of a step, coordinate by coordinate.
IsPolylineOf(linestring, step) ==
    /\ Len(linestring) = Len(step.geometry)
    /\ \A k \in DOMAIN linestring :
        /\ linestring[k].x = step.geometry[k].lng
        /\ linestring[k].y = step.geometry[k].lat

\* C5: whenever no caller holds the Mutex and the state is Navigating, the
\* cached polyline is the polyline of the head of remaining_steps.
C5_CachedPolylineOfHead ==
    (holder = NoCaller /\ state.kind = "Navigating") =>
        /\ Len(state.remaining_steps) >= 1
        /\ IsPolylineOf(state.current_step_linestring, state.remaining_steps[1])

\* The Mutex is free after both methods have advanced a step, while another
\* caller waits for it.
C5_Witness ==
    /\ holder = NoCaller
    /\ state.kind = "Navigating"
    /\ \E i \in UpdateCalls : log[i].arm = "advanced"
    /\ \E i \in AdvanceCalls : log[i].arm = "advanced"
    /\ \E c \in Callers : pc[c] = "lock"
    /\ state.remaining_steps[1] = input.route.steps[3]

\* C6: whenever no caller holds the Mutex and the state is Navigating,
\* remaining_steps is not empty; a call that found one step left and advanced
\* left the state Complete; and no call took the arm for empty steps.
C6_NavigatingHasSteps ==
    /\ (holder = NoCaller /\ state.kind = "Navigating") => Len(state.remaining_steps) >= 1
    /\ \A i \in DOMAIN log :
        /\ log[i].arm # "no_steps"
        /\ (log[i].pre.kind = "Navigating" /\ log[i].arm = "end_of_route") =>
            (Len(log[i].pre.remaining_steps) = 1 /\ log[i].post.kind = "Complete")
        /\ log[i].post.kind = "Navigating" => Len(log[i].post.remaining_steps) >= 1
    /\ \A c \in Callers : local[c].arm # "no_steps"

\* A location report has removed the last step of a route and completed the
\* trip.
C6_Witness ==
    /\ holder = NoCaller
    /\ Len(log) >= 1
    /\ log[Len(log)].arm = "end_of_route"
    /\ log[Len(log)].method = "update_user_location"
    /\ Len(log[Len(log)].pre.remaining_steps) = 1
    /\ state.kind = "Complete"

\* C7: a call of update_user_location that found the state Navigating and
\* whose policy fired returned, with two or more steps remaining, Navigating
\* on the step that was second and left the state Navigating; with one step
\* remaining it left the state Complete and returned Arrived.
C7_PolicyAdvances ==
    \A i \in UpdateCalls :
        (log[i].pre.kind = "Navigating" /\ log[i].policy = Some(TRUE)) =>
            /\ Len(log[i].pre.remaining_steps) >= 2 =>
                /\ log[i].ret.kind = "Navigating"
                /\ log[i].ret.current_step = log[i].pre.remaining_steps[2]
                /\ log[i].post.kind = "Navigating"
                /\ log[i].post.remaining_steps[1] = log[i].pre.remaining_steps[2]
            /\ Len(log[i].pre.remaining_steps) = 1 =>
                /\ log[i].ret.kind = "Arrived"
                /\ log[i].post.kind = "Complete"

\* Locations at the end of each step in turn take a route with a step to
\* spare from its first step to the next and, two calls later, to Arrived.
C7_Witness ==
    /\ Len(log) = 3
    /\ N = 3
    /\ UpdateCalls = DOMAIN log
    /\ \A i \in DOMAIN log : log[i].policy = Some(TRUE)
    /\ log[1].ret.kind = "Navigating"
    /\ log[1].ret.current_step = input.route.steps[2]
    /\ log[3].ret.kind = "Arrived"

\* C8: with the manual-only strategy every call of update_user_location that
\* found the state Navigating left remaining_steps and the cached polyline as
\* they were and reported the head step; a call that changed the steps or
\* completed the trip was a call of advance_to_next_step.
C8_ManualOnly ==
    config.step_advance = Manual =>
        /\ \A i \in UpdateCalls : log[i].pre.kind = "Navigating" =>
            /\ log[i].post.kind = "Navigating"
            /\ log[i].post.remaining_steps = log[i].pre.remaining_steps
            /\ log[i].post.current_step_linestring = log[i].pre.current_step_linestring
            /\ log[i].ret.kind = "Navigating"
            /\ log[i].ret.current_step = log[i].pre.remaining_steps[1]
        /\ \A i \in DOMAIN log : log[i].post # log[i].pre => log[i].method = "advance_to_next_step"
        /\ \A i, j \in UpdateCalls : (i < j /\ \A k \in i..j : k \in UpdateCalls) =>
            log[i].ret.kind = log[j].ret.kind /\ (log[i].ret.kind = "Navigating" => log[i].ret.current_step = log[j].ret.current_step)

\* Manual-only: two reports of the end of the route leave the first step
\* current, and an explicit advance moves to the second.
C8_Witness ==
    /\ config.step_advance = Manual
    /\ Len(log) = 3
    /\ log[1].method = "update_user_location"
    /\ log[2].method = "update_user_location"
    /\ log[1].location = UserLocation(Corner(MaxSteps), 0)
    /\ log[2].location = UserLocation(Corner(1), 0)
    /\ log[2].ret.kind = "Navigating"
    /\ log[2].ret.current_step = input.route.steps[1]
    /\ log[3].method = "advance_to_next_step"
    /\ log[3].ret.kind = "Navigating"
    /\ log[3].ret.current_step = input.route.steps[2]

\* C9 as claimed: a call of update_user_location that found the state
\* Navigating and left it Navigating left the reported location as the
\* state's last raw location and its snap onto the polyline of the route as
\* the state's snapped location.
C9_LocationRecorded ==
    \A i \in UpdateCalls :
        (log[i].pre.kind = "Navigating" /\ log[i].post.kind = "Navigating") =>
            /\ log[i].post.last_user_location = log[i].location
            /\ log[i].post.snapped_user_location = snap_user_location_to_line(log[i].location, log[i].post.route_linestring)

\* What the code does instead: the locations stored in the state are those of
\* the construction, whatever has been reported since, while the returned
\* update carries the snap of the reported location.
C9_LocationNotRecorded ==
    /\ state.kind = "Navigating" =>
        /\ state.last_user_location = input.last_user_location
        /\ state.snapped_user_location = snap_user_location_to_line(input.last_user_location, route_linestring_of(input.route))
    /\ \A i \in UpdateCalls : log[i].ret.kind = "Navigating" =>
        log[i].ret.snapped_user_location = snap_user_location_to_line(log[i].location, route_linestring_of(input.route))

\* C10: once the Mutex is poisoned no call returns an update, the TripState
\* does not change, and no caller gets the guard: a caller at lock() leaves it
\* only by aborting, with no update computed.
C10_PoisonedIsFatal ==
    [][poisoned =>
        /\ log' = log
        /\ state' = state
        /\ holder' = NoCaller
        /\ \A c \in Callers :
            /\ pc'[c] \notin {"guard", "apply", "return"}
            /\ (pc[c] = "lock" /\ pc'[c] # "lock") => (pc'[c] = "aborted" /\ local'[c] = NoLocals)]_vars

\* A holder panicked, and a location report made by another caller has
\* aborted at lock() with the trip still under way.
C10_Witness ==
    /\ poisoned
    /\ \E c, d \in Callers :
        /\ pc[c] = "panicked"
        /\ pc[d] = "aborted"
        /\ call[d].method = "update_user_location"
        /\ state.kind = "Navigating"

\* The TripState the i-th call to return must have found: the constructed
\* one, or the one the call before it left.
StateBefore(i) == IF i = 1 THEN New(input.last_user_location, input.route) ELSE log[i - 1].post

\* The i-th call to return, run on its own on the TripState before it.
RunAlone(i) == IF log[i].method = "advance_to_next_step" THEN advance_to_next_step(StateBefore(i)) ELSE update_user_location(StateBefore(i), log[i].location, config)

\* The callers between lock() and the return of their method.
InMethodBody == {c \in Callers : pc[c] \in {"guard", "apply", "return"}}

\* C11: the calls are serialized by the Mutex.  Each call, at its return (when
\* it is the last of the log, which only grows), found the TripState the call
\* before it left, and left and returned what it would have run on its own;
\* the one caller in a method body is the holder of the guard, it found the
\* TripState the last call left, and with the Mutex free the TripState is the
\* one the last call left.
C11_Serialized ==
    /\ Len(log) > 0 =>
        /\ log[Len(log)].pre = StateBefore(Len(log))
        /\ LET alone == RunAlone(Len(log))
           IN  log[Len(log)].post = alone.post /\ log[Len(log)].ret = alone.ret
    /\ InMethodBody = IF holder = NoCaller THEN {} ELSE {holder}
    /\ holder = NoCaller => state = StateBefore(Len(log) + 1)
    /\ holder # NoCaller => local[holder].pre = StateBefore(Len(log) + 1)

\* A call has returned and a second has removed the head step and not yet
\* replaced the cached polyline, while another caller waits at lock().
C11_Witness ==
    /\ Len(log) = 1
    /\ log[1].arm = "advanced"
    /\ holder # NoCaller
    /\ pc[holder] = "apply"
    /\ \E d \in Callers : d # holder /\ pc[d] = "lock"
    /\ state # local[holder].pre

\* The last call to have returned.
Last == log[Len(log)]

\* C12: no caller has panicked under the guard or met a poisoned Mutex;
\* remaining_steps.remove(0) has only run on a sequence that was not empty; and
\* every call returned Arrived or a Navigating update on a step of the route.
C12_NoFailure ==
    /\ ~poisoned
    /\ \A c \in Callers :
        /\ pc[c] \notin {"panicked", "aborted"}
        /\ pc[c] = "apply" => (local[c].pre.kind = "Navigating" /\ Len(local[c].pre.remaining_steps) >= 1)
        /\ pc[c] = "return" => local[c].ret.kind \in {"Navigating", "Arrived"}
    /\ Len(log) > 0 =>
        /\ Last.ret.kind \in {"Navigating", "Arrived"}
        /\ Last.ret.kind = "Navigating" => \E k \in 1..N : Last.ret.current_step = input.route.steps[k]
        /\ Last.arm = "advanced" => Len(Last.pre.remaining_steps) >= 2

\* The head was removed from a sequence of two steps, the last step ended
\* the route, and a call on the finished trip returned as well.
C12_Witness ==
    /\ Len(log) = 3
    /\ log[1].arm = "advanced"
    /\ Len(log[1].pre.remaining_steps) = 2
    /\ log[2].arm = "end_of_route"
    /\ log[3].arm = "complete"
    /\ \A c \in Callers : pc[c] = "idle"
    /\ ~poisoned

\* The steps of the route from the k-th on.
Suffix(k) == SubSeq(input.route.steps, k, N)

\* The remaining steps of a Navigating TripState are the steps of the route
\* from some step on, and there is one at least.
IsSuffix(st) == \E k \in 1..N : st.remaining_steps = Suffix(k)

\* C13: in every Navigating state, the holder's intermediate ones included,
\* remaining_steps is a non-empty suffix of the route's steps; and each call
\* left remaining_steps as it found them, or without their head, or completed
\* the trip from its last step.
C13_StepsInOrder ==
    /\ state.kind = "Navigating" => IsSuffix(state)
    /\ Len(log) > 0 =>
        /\ Last.pre.kind = "Complete" => Last.post.kind = "Complete"
        /\ (Last.pre.kind = "Navigating" /\ Last.post.kind = "Navigating") =>
            \/ Last.post.remaining_steps = Last.pre.remaining_steps
            \/ Last.post.remaining_steps = Tail(Last.pre.remaining_steps)
        /\ (Last.pre.kind = "Navigating" /\ Last.post.kind = "Complete") =>
            Len(Last.pre.remaining_steps) = 1

\* The longest route with its first two steps removed in turn, one by each
\* method.
C13_Witness ==
    /\ N = MaxSteps
    /\ N >= 3
    /\ state.kind = "Navigating"
    /\ state.remaining_steps = Suffix(3)
    /\ Len(log) = 2
    /\ log[1].method # log[2].method
    /\ log[1].post.remaining_steps = Suffix(2)

\* C14: every Navigating update carries the waypoints of the route, and the
\* remaining waypoints stored in the TripState are those of the route.
C14_WaypointsStatic ==
    /\ state.kind = "Navigating" => state.remaining_waypoints = input.route.waypoints
    /\ \A i \in DOMAIN log : log[i].ret.kind = "Navigating" => log[i].ret.remaining_waypoints = input.route.waypoints
    /\ \A c \in Callers : (pc[c] = "return" /\ local[c].ret.kind = "Navigating") => local[c].ret.remaining_waypoints = input.route.waypoints

\* Both methods have advanced a step of the longest route and returned its
\* waypoints, the first and the last corner.
C14_Witness ==
    /\ N = MaxSteps
    /\ Len(log) = 2
    /\ log[1].arm = "advanced"
    /\ log[2].arm = "advanced"
    /\ log[1].method # log[2].method
    /\ log[2].ret.remaining_waypoints = <<Corner(0), Corner(MaxSteps)>>

\* C15: a call of advance_to_next_step that found two or more steps returned
\* Navigating on the step that was second, now the head, with that step's
\* full distance as the remaining distance.
C15_AdvanceReportsNewHead ==
    \A i \in AdvanceCalls :
        (log[i].pre.kind = "Navigating" /\ Len(log[i].pre.remaining_steps) >= 2) =>
            /\ log[i].ret.kind = "Navigating"
            /\ log[i].ret.current_step = log[i].pre.remaining_steps[2]
            /\ log[i].post.kind = "Navigating"
            /\ log[i].ret.current_step = log[i].post.remaining_steps[1]
            /\ log[i].ret.current_step_remaining_distance = log[i].pre.remaining_steps[2].distance

\* Two advances on the longest route: the second reports the third step
\* and its distance.
C15_Witness ==
    /\ N >= 3
    /\ Len(log) = 2
    /\ AdvanceCalls = {1, 2}
    /\ log[2].ret.kind = "Navigating"
    /\ log[2].ret.current_step = StepOf(3)
    /\ log[2].ret.current_step_remaining_distance = 30

\* C16: a caller outside a method body does not hold the guard, whatever path
\* its call returned by; while a call is in progress some caller is inside a
\* method body or can take the free Mutex; and under fair scheduling every call
\* in progress returns.
C16_CallsReturn ==
    /\ [](\A c \in Callers : holder = c => pc[c] \in {"guard", "apply", "return"})
    /\ []((\E c \in Callers : pc[c] # "idle") => \E c \in Callers : pc[c] \in {"guard", "apply", "return"} \/ (pc[c] = "lock" /\ holder = NoCaller))
    /\ \A c \in Callers : (pc[c] # "idle") ~> (pc[c] = "idle")

\* All callers are idle and the Mutex free after calls that returned by the
\* arms of update_user_location that return early and by others.
C16_Witness ==
    /\ Len(log) = 3
    /\ \A c \in Callers : pc[c] = "idle"
    /\ holder = NoCaller
    /\ log[1].method = "update_user_location"
    /\ log[1].arm = "stay"
    /\ log[2].method = "update_user_location"
    /\ log[2].arm = "end_of_route"
    /\ log[3].arm = "complete"

\* The steps of Running(c) are the steps of the actions of caller c.
RunningIsCallerStep == [][\A c \in Callers : Running(c) <=> (Lock(c) \/ AdvanceMatch(c) \/ AdvanceApply(c) \/ UpdateMatch(c) \/ UpdateApply(c) \/ Return(c))]_vars

\* C17: the step a Navigating update reports is the head of remaining_steps in
\* the TripState the call left, and a call that found a step and returned
\* Arrived left the TripState Complete.
C17_ReportedStepIsHead ==
    Len(log) > 0 =>
        /\ Last.ret.kind = "Navigating" =>
            /\ Last.post.kind = "Navigating"
            /\ Len(Last.post.remaining_steps) > 0
            /\ Last.ret.current_step = Last.post.remaining_steps[1]
        /\ (Last.ret = Arrived /\ Last.pre.kind = "Navigating" /\ Len(Last.pre.remaining_steps) > 0) =>
            Last.post = Complete

\* An update that advanced onto the second and last step reported it as the
\* head, and the advance after it returned Arrived and left Complete.
C17_Witness ==
    /\ N = 2
    /\ Len(log) = 2
    /\ log[1].method = "update_user_location"
    /\ log[1].arm = "advanced"
    /\ log[1].ret.current_step = StepOf(2)
    /\ log[1].post.remaining_steps = <<StepOf(2)>>
    /\ log[2].method = "advance_to_next_step"
    /\ log[2].pre.kind = "Navigating"
    /\ log[2].ret = Arrived
    /\ log[2].post = Complete

\* C18: a call of update_user_location that found a step evaluated the policy
\* once, on the TripState it found (the cached polyline of the head it found),
\* and left remaining_steps as it found it or without its head: never shorter
\* by two, even when the location also satisfies the policy on the new head.
C18_OneStepPerUpdate ==
    (Len(log) > 0 /\ Last.method = "update_user_location" /\ Last.pre.kind = "Navigating" /\ Len(Last.pre.remaining_steps) > 0) =>
        /\ Last.policy = Some(policy_fires(Last.pre, Last.location, config))
        /\ Last.post.kind = "Navigating" => Last.post.remaining_steps \in {Last.pre.remaining_steps, Tail(Last.pre.remaining_steps)}
        /\ Last.arm = "advanced" =>
            /\ Last.policy = Some(TRUE)
            /\ Last.post.remaining_steps = Tail(Last.pre.remaining_steps)
            /\ Last.ret.current_step = Last.pre.remaining_steps[2]
        /\ Last.arm = "stay" => Last.policy = Some(FALSE) /\ Last.post = Last.pre

\* An update at the far end of a three-step route advanced by one step although
\* its location satisfies the policy on the new head too, with a step after
\* that head still to go.
C18_Witness ==
    /\ Len(log) = 1
    /\ Last.method = "update_user_location"
    /\ Last.location = UserLocation(Corner(MaxSteps), 0)
    /\ Last.arm = "advanced"
    /\ Len(Last.pre.remaining_steps) = 3
    /\ Len(Last.post.remaining_steps) = 2
    /\ policy_fires(Last.post, Last.location, config)

\* The most recent call of update_user_location before call i, 0 if none.
LatestUpdate(i) == LET earlier == {j \in UpdateCalls : j < i} IN IF earlier = {} THEN 0 ELSE CHOOSE j \in earlier : \A k \in earlier : k <= j

\* The snap of the location most recently given to the controller before call i.
LatestSnap(i) == IF LatestUpdate(i) = 0 THEN snap_user_location_to_line(input.last_user_location, route_linestring_of(input.route)) ELSE snap_user_location_to_line(log[LatestUpdate(i)].location, route_linestring_of(input.route))

\* C19: the snapped_user_location in a Navigating update of
\* advance_to_next_step is the snap of the location most recently passed to
\* update_user_location, or of the construction location if there was none.
C19_AdvanceReportsLatestSnap ==
    \A i \in AdvanceCalls : log[i].ret.kind = "Navigating" => log[i].ret.snapped_user_location = LatestSnap(i)

\* What the code does instead: advance_to_next_step reports the snap of the
\* construction location, whatever update_user_location was given since.
C19_AdvanceReportsConstructionSnap ==
    \A i \in AdvanceCalls : log[i].ret.kind = "Navigating" => log[i].ret.snapped_user_location = snap_user_location_to_line(input.last_user_location, route_linestring_of(input.route))

\* An advance after an update whose snap differs from the construction's.
C19_StaleSnapReported ==
    /\ Len(log) = 2
    /\ log[1].method = "update_user_location"
    /\ log[1].ret.kind = "Navigating"
    /\ log[2].method = "advance_to_next_step"
    /\ log[2].ret.kind = "Navigating"
    /\ log[2].ret.snapped_user_location # log[1].ret.snapped_user_location

====
